---------------------------- MODULE Spec2Model ----------------------------
(***************************************************************************)
(* Session Tracker (src/app.py): a Streamlit script over three Firestore   *)
(* collections ('users', 'sessions', 'preferences').  Every browser tab is *)
(* one UI session with its own st.session_state; the collections are       *)
(* shared by all UI sessions.                                              *)
(*                                                                         *)
(* Number representation.  Every decimal x of the program (hours, rate) is *)
(* represented by the integer 2*x, so the 0.5 step of the number inputs is *)
(* the integer step 1; a product of two such numbers (amount) is therefore *)
(* represented by 4 times its value.  Dates (datetime.date) are proleptic  *)
(* Gregorian ordinals as returned by date.toordinal(); the text produced   *)
(* by strftime("%Y-%m-%d") is the triple <<year, month, day>>.             *)
(***************************************************************************)
EXTENDS Integers, Sequences, FiniteSets, TLC

VARIABLES
    db_users,        \* collection 'users': email -> [email, password]
    db_sessions,     \* collection 'sessions': document id -> document
    db_preferences,  \* collection 'preferences': email -> preferences
    nextId,          \* number of auto-generated document ids handed out so far
    st,              \* st.session_state of every UI session
    pc,              \* position of every UI session inside the sign-up handler
    last             \* what the last executed handler did and displayed

vars == <<db_users, db_sessions, db_preferences, nextId, st, pc, last>>

-----------------------------------------------------------------------------
(* Bounds of the model. *)

\* documents ever added to 'sessions' in one behaviour of Spec
MaxSessions == 2
\* documents already added to 'sessions' when a bulk insert is explored
MaxPrior == 1
\* largest "Number of Weeks" offered to the weekly generator (the form allows 12)
MaxWeeks == 2
\* largest "Number of sessions" offered to the batch form (the form allows 10)
MaxTuples == 2
\* largest number of lines of a pasted text
MaxLines == 3
\* documents ever added to 'sessions' while the display tabs are explored
MaxViewed == 3

-----------------------------------------------------------------------------
(* Input alphabets. *)

UIs == {"u1", "u2"}
Emails == {"a@x", "b@x"}
Passwords == {"p", "q"}
\* what can be typed into an academy / group text box
AcademyTexts == {"", "A1", "A2"}
GroupTexts == {"", "G1"}
\* day ordinals: 739191 = Fri 2024-11-01, 739250 = Mon 2024-12-30
FormDates == {739191, 739250}

None == "None"

-----------------------------------------------------------------------------
(* Program constants. *)

\* st.number_input("Hours*", min_value=0.5, max_value=12.0, ...)
MinHours == 1
MaxHours == 24
\* st.number_input("Hourly Rate (EGP)*", min_value=0.0, ...)
MinRate == 0
\* {'academies': [], 'groups': [], 'default_rate': 200.0}
DefaultRate == 400
\* if len(parts) >= 5
MinFields == 5
\* "\n".join(errors[:5])
ErrorsShown == 5

-----------------------------------------------------------------------------
(* datetime.date arithmetic, as CPython's datetime module computes it. *)

\* _is_leap
IsLeap(y) == y % 4 = 0 /\ (y % 100 # 0 \/ y % 400 = 0)

\* _DAYS_IN_MONTH and _DAYS_BEFORE_MONTH of a common year
DaysInMonthTable == <<31, 28, 31, 30, 31, 30, 31, 31, 30, 31, 30, 31>>
DaysBeforeMonthTable == <<0, 31, 59, 90, 120, 151, 181, 212, 243, 273, 304, 334>>

\* _days_in_month
DaysInMonth(y, m) ==
    IF m = 2 /\ IsLeap(y) THEN 29 ELSE DaysInMonthTable[m]

\* _days_before_month
DaysBeforeMonth(y, m) ==
    DaysBeforeMonthTable[m] + (IF m > 2 /\ IsLeap(y) THEN 1 ELSE 0)

\* _days_before_year
DaysBeforeYear(y) ==
    (y - 1) * 365 + ((y - 1) \div 4) - ((y - 1) \div 100) + ((y - 1) \div 400)

\* _ymd2ord: date(y, m, d).toordinal()
Ymd2Ord(y, m, d) == DaysBeforeYear(y) + DaysBeforeMonth(y, m) + d

\* the tail of _ord2ymd: n is the 0-based day of the year, month its estimate
Ord2YmdMonth(year, n, month) ==
    IF DaysBeforeMonth(year, month) > n
    THEN <<year, month - 1, n - DaysBeforeMonth(year, month - 1) + 1>>
    ELSE <<year, month, n - DaysBeforeMonth(year, month) + 1>>

\* _ord2ymd after the 400-, 100-, 4- and 1-year cycles have been counted
Ord2YmdYear(n400, n100, n4, n1, n) ==
    IF n1 = 4 \/ n100 = 4
    THEN <<n400 * 400 + n100 * 100 + n4 * 4 + n1, 12, 31>>
    ELSE Ord2YmdMonth(n400 * 400 + 1 + n100 * 100 + n4 * 4 + n1, n, (n + 50) \div 32)

\* _ord2ymd: date.fromordinal(n) as <<y, m, d>>
Ord2Ymd(n) ==
    Ord2YmdYear((n - 1) \div 146097,
                ((n - 1) % 146097) \div 36524,
                (((n - 1) % 146097) % 36524) \div 1461,
                ((((n - 1) % 146097) % 36524) % 1461) \div 365,
                ((((n - 1) % 146097) % 36524) % 1461) % 365)

\* date.weekday(): Monday = 0 .. Sunday = 6
Weekday(n) == (n + 6) % 7

\* date.strftime("%Y-%m-%d")
Strftime(n) == Ord2Ymd(n)

\* a "YYYY-MM-DD" text names a calendar date
ValidYmd(t) ==
    /\ t[1] \in 1..9999
    /\ t[2] \in 1..12
    /\ t[3] \in 1..DaysInMonth(t[1], t[2])

-----------------------------------------------------------------------------
(* Firestore helpers (src/app.py lines 46-116). *)

\* hashlib.sha256(...).hexdigest(): a fixed injective map on the passwords used
hash_password(password) == <<"sha256", password>>

\* user_ref.get(): the snapshot of 'users'/email
load_user(users, email) ==
    IF email \in DOMAIN users
    THEN [exists |-> TRUE, password |-> users[email].password]
    ELSE [exists |-> FALSE, password |-> <<>>]

\* user_ref.set({...}): creates the document or replaces it
create_user(users, email, password) ==
    [e \in DOMAIN users \cup {email} |->
        IF e = email
        THEN [email |-> email, password |-> hash_password(password)]
        ELSE users[e]]

\* the ids of a set, ascending (Firestore streams a query in document-id order)
RECURSIVE SortedIds(_)
SortedIds(S) ==
    IF S = {} THEN <<>>
    ELSE LET m == CHOOSE x \in S : \A y \in S : x <= y
         IN  <<m>> \o SortedIds(S \ {m})

\* doc.to_dict() with session_data['id'] = doc.id
WithId(doc, id) ==
    [id |-> id, user_email |-> doc.user_email, academy |-> doc.academy,
     group |-> doc.group, date |-> doc.date, hours |-> doc.hours,
     rate |-> doc.rate, amount |-> doc.amount, notes |-> doc.notes]

load_sessions(sessions, email) ==
    LET ids == SortedIds({i \in DOMAIN sessions : sessions[i].user_email = email})
    IN  [k \in 1..Len(ids) |-> WithId(sessions[ids[k]], ids[k])]

\* db.collection('sessions').add(session_data) under the fresh document id `id`
save_session(sessions, id, email, session_data) ==
    [i \in DOMAIN sessions \cup {id} |->
        IF i = id
        THEN [user_email |-> email, academy |-> session_data.academy,
              group |-> session_data.group, date |-> session_data.date,
              hours |-> session_data.hours, rate |-> session_data.rate,
              amount |-> session_data.amount, notes |-> session_data.notes]
        ELSE sessions[i]]

\* update_session without the 'amount' entry in the update: the stored amount stays
update_session_stale(sessions, session_id, session_data) ==
    IF session_id \in DOMAIN sessions
    THEN [raised |-> FALSE,
          sessions |-> [sessions EXCEPT ![session_id] =
              [user_email |-> @.user_email, academy |-> session_data.academy,
               group |-> session_data.group, date |-> session_data.date,
               hours |-> session_data.hours, rate |-> session_data.rate,
               amount |-> @.amount, notes |-> session_data.notes]]]
    ELSE [raised |-> TRUE, sessions |-> sessions]

\* update_session written with set(session_data, merge=True): a missing
\* document is created instead of NotFound being raised
update_session_upsert(sessions, session_id, session_data) ==
    [raised |-> FALSE,
     sessions |-> [i \in DOMAIN sessions \cup {session_id} |->
        IF i = session_id
        THEN [user_email |-> IF i \in DOMAIN sessions
                             THEN sessions[i].user_email ELSE None,
              academy |-> session_data.academy,
              group |-> session_data.group, date |-> session_data.date,
              hours |-> session_data.hours, rate |-> session_data.rate,
              amount |-> session_data.amount, notes |-> session_data.notes]
        ELSE sessions[i]]]

\* update_session written with set(session_data): the document is replaced
\* by the seven fields and the owner is lost
update_session_replace(sessions, session_id, session_data) ==
    IF session_id \in DOMAIN sessions
    THEN [raised |-> FALSE,
          sessions |-> [sessions EXCEPT ![session_id] =
              [user_email |-> None, academy |-> session_data.academy,
               group |-> session_data.group, date |-> session_data.date,
               hours |-> session_data.hours, rate |-> session_data.rate,
               amount |-> session_data.amount, notes |-> session_data.notes]]]
    ELSE [raised |-> TRUE, sessions |-> sessions]

\* document(session_id).update(session_data): Firestore's update requires the
\* document to exist and raises NotFound otherwise; the fields that are not
\* in session_data (user_email) are kept
update_session(sessions, session_id, session_data) ==
    IF session_id \in DOMAIN sessions
    THEN [raised |-> FALSE,
          sessions |-> [sessions EXCEPT ![session_id] =
              [user_email |-> @.user_email, academy |-> session_data.academy,
               group |-> session_data.group, date |-> session_data.date,
               hours |-> session_data.hours, rate |-> session_data.rate,
               amount |-> session_data.amount, notes |-> session_data.notes]]]
    ELSE [raised |-> TRUE, sessions |-> sessions]

\* document(session_id).delete(): Firestore's delete succeeds whether or not
\* the document exists
delete_session(sessions, session_id) ==
    [raised |-> FALSE,
     sessions |-> [i \in DOMAIN sessions \ {session_id} |-> sessions[i]]]

\* delete_all_sessions without the filter on user_email
delete_all_sessions_unfiltered(sessions, email) == <<>>

\* every document of the query where('user_email', '==', email) is deleted
delete_all_sessions(sessions, email) ==
    [i \in {j \in DOMAIN sessions : sessions[j].user_email # email} |-> sessions[i]]

DefaultPreferences == [academies |-> <<>>, groups |-> <<>>, default_rate |-> DefaultRate]

load_preferences(preferences, email) ==
    IF email \in DOMAIN preferences THEN preferences[email] ELSE DefaultPreferences

-----------------------------------------------------------------------------
(* What a handler reports: the operation, the UI session, whether it ended *)
(* with st.success (ok), the message or exception shown, the number of     *)
(* sessions it says it added, its error list and its inputs.               *)

Report(u, op, ok, msg, count, errors, arg) ==
    [ui |-> u, op |-> op, ok |-> ok, msg |-> msg, count |-> count,
     errors |-> errors, arg |-> arg]

NoArg == [none |-> TRUE]

Range(s) == {s[i] : i \in DOMAIN s}

-----------------------------------------------------------------------------
(* Initial state: empty collections, every UI session logged out          *)
(* (lines 120-127).                                                        *)

Init ==
    /\ db_users = <<>>
    /\ db_sessions = <<>>
    /\ db_preferences = <<>>
    /\ nextId = 0
    /\ st = [u \in UIs |-> [logged_in |-> FALSE, user_email |-> None,
                            sessions |-> <<>>, preferences |-> DefaultPreferences]]
    /\ pc = [u \in UIs |-> [at |-> "idle", email |-> None, password |-> None]]
    /\ last = Report(None, "init", FALSE, "", 0, <<>>, NoArg)

-----------------------------------------------------------------------------
(* Authentication (lines 130-187). *)

\* the login form, lines 142-152
Login(u, email, password) ==
    /\ ~st[u].logged_in
    /\ pc[u].at = "idle"
    /\ LET user == load_user(db_users, email)
       IN  IF user.exists /\ user.password = hash_password(password)
           THEN /\ st' = [st EXCEPT ![u] =
                        [logged_in |-> TRUE, user_email |-> email,
                         sessions |-> load_sessions(db_sessions, email),
                         preferences |-> load_preferences(db_preferences, email)]]
                /\ last' = Report(u, "login", TRUE, "Login successful!", 0, <<>>,
                                  [email |-> email])
           ELSE /\ st' = st
                /\ last' = Report(u, "login", FALSE, "Invalid email or password!",
                                  0, <<>>, [email |-> email])
    /\ UNCHANGED <<db_users, db_sessions, db_preferences, nextId, pc>>

\* signup_check without the lookup of the existing account
signup_check_no_lookup(new_email, new_password, confirm_password, existing_user) ==
    IF new_email = "" \/ new_password = "" THEN "Please fill in all fields!"
    ELSE IF new_password # confirm_password THEN "Passwords don't match!"
    ELSE "create"

\* the outcome of the sign-up form's checks, lines 163-170
signup_check(new_email, new_password, confirm_password, existing_user) ==
    IF new_email = "" \/ new_password = "" THEN "Please fill in all fields!"
    ELSE IF new_password # confirm_password THEN "Passwords don't match!"
    ELSE IF existing_user.exists THEN "Email already exists!"
    ELSE "create"

\* the sign-up form up to and including load_user, lines 162-170
SignupSubmit(u, new_email, new_password, confirm_password) ==
    /\ ~st[u].logged_in
    /\ pc[u].at = "idle"
    /\ LET verdict == signup_check(new_email, new_password, confirm_password,
                                   load_user(db_users, new_email))
       IN  IF verdict = "create"
           THEN /\ pc' = [pc EXCEPT ![u] = [at |-> "create", email |-> new_email,
                                            password |-> new_password]]
                /\ last' = Report(u, "signup_check", TRUE, "", 0, <<>>,
                                  [email |-> new_email, password |-> new_password,
                                   confirm |-> confirm_password])
           ELSE /\ pc' = pc
                /\ last' = Report(u, "signup_check", FALSE, verdict, 0, <<>>,
                                  [email |-> new_email, password |-> new_password,
                                   confirm |-> confirm_password])
    /\ UNCHANGED <<db_users, db_sessions, db_preferences, nextId, st>>

\* create_user and the success message, lines 172-173
SignupCreate(u) ==
    /\ pc[u].at = "create"
    /\ db_users' = create_user(db_users, pc[u].email, pc[u].password)
    /\ pc' = [pc EXCEPT ![u] = [at |-> "idle", email |-> None, password |-> None]]
    /\ last' = Report(u, "signup", TRUE, "Account created! Please login.", 0, <<>>,
                      [email |-> pc[u].email, password |-> pc[u].password])
    /\ UNCHANGED <<db_sessions, db_preferences, nextId, st>>

\* the logout button, lines 183-187 (st.session_state.preferences is kept)
Logout(u) ==
    /\ st[u].logged_in
    /\ st' = [st EXCEPT ![u] = [logged_in |-> FALSE, user_email |-> None,
                                sessions |-> <<>>, preferences |-> @.preferences]]
    /\ last' = Report(u, "logout", TRUE, "", 0, <<>>, NoArg)
    /\ UNCHANGED <<db_users, db_sessions, db_preferences, nextId, pc>>

-----------------------------------------------------------------------------
(* Widgets. *)

\* a selectbox over a non-empty preference list offers its entries only; with
\* an empty list the form shows a free text input (lines 528-536, 620-629)
Offered(list, value) == list # <<>> => value \in Range(list)

\* st.number_input(min_value=0.5, max_value=12.0, value=float(session['hours']))
\* and st.number_input(min_value=0.0, value=float(session['rate'])) raise when
\* the value lies outside the range, which ends the script run at that point
\* (lines 747-750)
Renderable(session) ==
    /\ session.hours >= MinHours
    /\ session.hours <= MaxHours
    /\ session.rate >= MinRate

\* the tabs exist only while the cached list is non-empty (lines 253-260)
HasTabs(u) == st[u].logged_in /\ Len(st[u].sessions) > 0

\* the script gets past the edit form of the Manage tab (lines 727-775) when
\* the session chosen in the edit selector can be rendered
PastEditForm(u) ==
    /\ HasTabs(u)
    /\ \E i \in 1..Len(st[u].sessions) : Renderable(st[u].sessions[i])

\* a handler that does not reload the cached list after its write
Reloaded_skipped(u, sessions) == st

\* st.session_state.sessions = load_sessions(st.session_state.user_email)
Reloaded(u, sessions) ==
    [st EXCEPT ![u].sessions = load_sessions(sessions, st[u].user_email)]

\* save_session for every element of a list, in order, under consecutive ids
RECURSIVE save_all(_, _, _, _)
save_all(sessions, id, email, list) ==
    IF list = <<>> THEN sessions
    ELSE save_all(save_session(sessions, id + 1, email, Head(list)),
                  id + 1, email, Tail(list))

-----------------------------------------------------------------------------
(* Sidebar form "add_session" (lines 202-250). *)

\* the dict built at lines 236-244
add_session_dict(academy, group, session_date, hours, rate, notes) ==
    [academy |-> academy, group |-> group, date |-> Strftime(session_date),
     hours |-> hours, rate |-> rate, amount |-> hours * rate, notes |-> notes]

\* if academy and group, line 235
add_valid(academy, group) == academy # "" /\ group # ""

AddSession(u, academy, group, session_date, hours, rate, notes) ==
    /\ st[u].logged_in
    /\ IF add_valid(academy, group)
       THEN /\ LET session == add_session_dict(academy, group, session_date,
                                               hours, rate, notes)
                   saved == save_session(db_sessions, nextId + 1,
                                         st[u].user_email, session)
               IN  /\ db_sessions' = saved
                   /\ st' = Reloaded(u, saved)
                   /\ last' = Report(u, "add_session", TRUE, "Session logged!", 1,
                                     <<>>, session)
            /\ nextId' = nextId + 1
       ELSE /\ last' = Report(u, "add_session", FALSE, "Fill required fields!", 0,
                              <<>>, [academy |-> academy, group |-> group])
            /\ UNCHANGED <<db_sessions, st, nextId>>
    /\ UNCHANGED <<db_users, db_preferences, pc>>

-----------------------------------------------------------------------------
(* Bulk insert, "Weekly Schedule" (lines 514-590). *)

\* the checkboxes of lines 549-559: the weekday() numbers of the days ticked
day_number(name) ==
    CASE name = "Sunday" -> 6
      [] name = "Monday" -> 0
      [] name = "Tuesday" -> 1
      [] name = "Wednesday" -> 2
      [] name = "Thursday" -> 3
      [] name = "Friday" -> 4
      [] name = "Saturday" -> 5

days_selected_of(ticked) == {day_number(name) : name \in ticked}

\* weekly_valid without the test of days_selected
weekly_valid_any_days(ws_academy, ws_group, days_selected) ==
    ws_academy # "" /\ ws_group # ""

\* if ws_academy and ws_group and days_selected, line 566
weekly_valid(ws_academy, ws_group, days_selected) ==
    ws_academy # "" /\ ws_group # "" /\ days_selected # {}

\* the dict built at lines 574-582
weekly_dict(ws_academy, ws_group, check_date, ws_hours, ws_rate, ws_notes) ==
    [academy |-> ws_academy, group |-> ws_group, date |-> Strftime(check_date),
     hours |-> ws_hours, rate |-> ws_rate, amount |-> ws_hours * ws_rate,
     notes |-> ws_notes]

\* check_date = current_date + Timedelta(days=day_num + week * 7), line 572
check_date(start_date, week, day_num) == start_date + day_num + week * 7

\* weekly_dates with the offset day_num tested instead of check_date.weekday()
weekly_dates_by_offset(start_date, num_weeks, days_selected) ==
    LET visited == [k \in 1..(7 * num_weeks) |-> k - 1]
        chosen == SelectSeq(visited, LAMBDA k : (k % 7) \in days_selected)
    IN  [j \in 1..Len(chosen) |->
            check_date(start_date, chosen[j] \div 7, chosen[j] % 7)]

\* the two nested loops of lines 570-584: the dates visited, in loop order,
\* that pass the test of line 573
weekly_dates(start_date, num_weeks, days_selected) ==
    LET visited == [k \in 1..(7 * num_weeks) |->
                        check_date(start_date, (k - 1) \div 7, (k - 1) % 7)]
    IN  SelectSeq(visited, LAMBDA d : Weekday(d) \in days_selected)

WeeklySchedule(u, ws_academy, ws_group, ws_hours, ws_rate, ws_notes, start_date, num_weeks, ticked) ==
    /\ HasTabs(u)
    /\ Offered(st[u].preferences.academies, ws_academy)
    /\ Offered(st[u].preferences.groups, ws_group)
    /\ LET arg == [academy |-> ws_academy, group |-> ws_group, hours |-> ws_hours,
                   rate |-> ws_rate, notes |-> ws_notes, start_date |-> start_date,
                   num_weeks |-> num_weeks, ticked |-> ticked]
           days_selected == days_selected_of(ticked)
       IN  IF weekly_valid(ws_academy, ws_group, days_selected)
           THEN LET dates == weekly_dates(start_date, num_weeks, days_selected)
                    list == [k \in 1..Len(dates) |->
                                weekly_dict(ws_academy, ws_group, dates[k],
                                            ws_hours, ws_rate, ws_notes)]
                    saved == save_all(db_sessions, nextId, st[u].user_email, list)
                IN  /\ db_sessions' = saved
                    /\ nextId' = nextId + Len(list)
                    /\ st' = Reloaded(u, saved)
                    /\ last' = Report(u, "weekly_schedule", TRUE, "Added sessions!",
                                      Len(list), <<>>, arg)
           ELSE /\ last' = Report(u, "weekly_schedule", FALSE,
                          "Fill all required fields and select at least one day!",
                          0, <<>>, arg)
                /\ UNCHANGED <<db_sessions, st, nextId>>
    /\ UNCHANGED <<db_users, db_preferences, pc>>

-----------------------------------------------------------------------------
(* Bulk insert, "Multiple Sessions" (lines 592-668). *)

\* valid_sessions that tests the academy only
valid_sessions_academy_only(sessions_data) ==
    SelectSeq(sessions_data, LAMBDA s : s.academy # "")

\* valid_sessions = [s for s in sessions_data if s['academy'] and s['group']]
valid_sessions(sessions_data) ==
    SelectSeq(sessions_data, LAMBDA s : s.academy # "" /\ s.group # "")

\* the dict built at lines 653-661
multiple_dict(sess, ms_date) ==
    [academy |-> sess.academy, group |-> sess.group, date |-> Strftime(ms_date),
     hours |-> sess.hours, rate |-> sess.rate, amount |-> sess.hours * sess.rate,
     notes |-> ""]

MultipleSessions(u, ms_date, sessions_data) ==
    /\ HasTabs(u)
    /\ \A k \in 1..Len(sessions_data) :
          /\ Offered(st[u].preferences.academies, sessions_data[k].academy)
          /\ Offered(st[u].preferences.groups, sessions_data[k].group)
    /\ LET valid == valid_sessions(sessions_data)
           arg == [date |-> ms_date, sessions_data |-> sessions_data]
       IN  IF valid # <<>>
           THEN LET list == [k \in 1..Len(valid) |-> multiple_dict(valid[k], ms_date)]
                    saved == save_all(db_sessions, nextId, st[u].user_email, list)
                IN  /\ db_sessions' = saved
                    /\ nextId' = nextId + Len(list)
                    /\ st' = Reloaded(u, saved)
                    /\ last' = Report(u, "multiple_sessions", TRUE, "Added sessions!",
                                      Len(valid), <<>>, arg)
           ELSE /\ last' = Report(u, "multiple_sessions", FALSE,
                          "Fill academy and group for at least one session!",
                          0, <<>>, arg)
                /\ UNCHANGED <<db_sessions, st, nextId>>
    /\ UNCHANGED <<db_users, db_preferences, pc>>

-----------------------------------------------------------------------------
(* Bulk insert, "Import from Text" (lines 670-718).  A line is modelled    *)
(* after line 692, as the list of its comma-separated, stripped fields.    *)

\* the year, month and day a date text spells, <<0, 0, 0>> when it spells none
DateFields(text) ==
    CASE text = "2024-11-01" -> <<2024, 11, 1>>
      [] text = "2024-11-02" -> <<2024, 11, 2>>
      [] text = "2024-12-31" -> <<2024, 12, 31>>
      [] text = "2024-02-30" -> <<2024, 2, 30>>
      [] OTHER -> <<0, 0, 0>>

\* pd.to_datetime(text): raises unless the text names a calendar date
to_datetime(text) ==
    LET f == DateFields(text)
    IN  IF ValidYmd(f)
        THEN [raised |-> FALSE, value |-> Ymd2Ord(f[1], f[2], f[3])]
        ELSE [raised |-> TRUE, value |-> 0]

\* float(text): raises ValueError unless the text is a decimal literal
float(text) ==
    CASE text = "2" -> [raised |-> FALSE, value |-> 4]
      [] text = "3" -> [raised |-> FALSE, value |-> 6]
      [] text = "0" -> [raised |-> FALSE, value |-> 0]
      [] text = "-2" -> [raised |-> FALSE, value |-> -4]
      [] text = "200" -> [raised |-> FALSE, value |-> 400]
      [] text = "250" -> [raised |-> FALSE, value |-> 500]
      [] OTHER -> [raised |-> TRUE, value |-> 0]

\* the body of the try block for one line, lines 692-706: either the dict to
\* save or the text of the error appended for the line (the dict's entries
\* are evaluated in order, so the first failing conversion raises)
import_line(parts) ==
    IF Len(parts) >= MinFields
    THEN LET d == to_datetime(parts[1])
             h == float(parts[4])
             r == float(parts[5])
         IN  IF d.raised THEN [saved |-> FALSE, error |-> "Unknown datetime string format"]
             ELSE IF h.raised \/ r.raised
             THEN [saved |-> FALSE, error |-> "could not convert string to float"]
             ELSE [saved |-> TRUE,
                   session |-> [academy |-> parts[2], group |-> parts[3],
                                date |-> Strftime(d.value),
                                hours |-> h.value, rate |-> r.value,
                                amount |-> h.value * r.value,
                                notes |-> IF Len(parts) > MinFields
                                          THEN parts[6] ELSE ""]]
    ELSE [saved |-> FALSE, error |-> "Not enough fields"]

\* import_loop that leaves the loop at the first failing line
RECURSIVE import_loop_abort(_, _, _, _, _, _, _)
import_loop_abort(sessions, id, email, lines, idx, imported, errors) ==
    IF idx > Len(lines)
    THEN [sessions |-> sessions, imported |-> imported, errors |-> errors]
    ELSE LET res == import_line(lines[idx])
         IN  IF res.saved
             THEN import_loop_abort(save_session(sessions, id + 1, email, res.session),
                                    id + 1, email, lines, idx + 1, imported + 1, errors)
             ELSE [sessions |-> sessions, imported |-> imported,
                   errors |-> Append(errors, [line |-> idx, text |-> res.error])]

\* the loop of lines 690-708 from line number idx on: the collection, the
\* count of imported lines and the error list it ends with
RECURSIVE import_loop(_, _, _, _, _, _, _)
import_loop(sessions, id, email, lines, idx, imported, errors) ==
    IF idx > Len(lines)
    THEN [sessions |-> sessions, imported |-> imported, errors |-> errors]
    ELSE LET res == import_line(lines[idx])
         IN  IF res.saved
             THEN import_loop(save_session(sessions, id + 1, email, res.session),
                              id + 1, email, lines, idx + 1, imported + 1, errors)
             ELSE import_loop(sessions, id, email, lines, idx + 1, imported,
                              Append(errors, [line |-> idx, text |-> res.error]))

\* errors[:5]
shown_errors(errors) ==
    SubSeq(errors, 1, IF Len(errors) < ErrorsShown THEN Len(errors) ELSE ErrorsShown)

\* lines is text_input.strip().split('\n') of a non-empty text_input
ImportText(u, lines) ==
    /\ HasTabs(u)
    /\ lines # <<>>
    /\ LET out == import_loop(db_sessions, nextId, st[u].user_email, lines, 1, 0, <<>>)
       IN  /\ db_sessions' = out.sessions
           /\ nextId' = nextId + out.imported
           /\ st' = Reloaded(u, out.sessions)
           /\ last' = Report(u, "import_text", out.imported > 0,
                             IF out.imported > 0 THEN "Imported sessions!" ELSE "",
                             out.imported, out.errors,
                             [lines |-> lines, shown |-> shown_errors(out.errors)])
    /\ UNCHANGED <<db_users, db_preferences, pc>>

-----------------------------------------------------------------------------
(* Manage tab (lines 720-803). *)

\* the dict built at lines 761-769
updated_session(edit_academy, edit_group, edit_date, edit_hours, edit_rate, edit_notes) ==
    [academy |-> edit_academy, group |-> edit_group, date |-> Strftime(edit_date),
     hours |-> edit_hours, rate |-> edit_rate, amount |-> edit_hours * edit_rate,
     notes |-> edit_notes]

\* if edit_academy and edit_group, line 760
edit_valid(edit_academy, edit_group) == edit_academy # "" /\ edit_group # ""

\* "Save Changes" that first compares the stored document with the session
\* the form was filled from, and refuses when another writer changed it
EditSessionChecked(u, index, edit_academy, edit_group, edit_date, edit_hours, edit_rate, edit_notes) ==
    /\ HasTabs(u)
    /\ index \in 1..Len(st[u].sessions)
    /\ Renderable(st[u].sessions[index])
    /\ LET session == st[u].sessions[index]
           new == updated_session(edit_academy, edit_group, edit_date,
                                  edit_hours, edit_rate, edit_notes)
           arg == [id |-> session.id, session |-> session, new |-> new,
                   form |-> [academy |-> edit_academy, group |-> edit_group,
                             date |-> edit_date, hours |-> edit_hours,
                             rate |-> edit_rate, notes |-> edit_notes]]
       IN  IF /\ session.id \in DOMAIN db_sessions
              /\ WithId(db_sessions[session.id], session.id) # session
           THEN /\ last' = Report(u, "edit_session", FALSE, "Changed elsewhere",
                                  0, <<>>, arg)
                /\ UNCHANGED <<db_sessions, st>>
           ELSE IF edit_valid(edit_academy, edit_group)
           THEN LET res == update_session(db_sessions, session.id, new)
                IN  IF res.raised
                    THEN /\ last' = Report(u, "edit_session", FALSE, "NotFound",
                                           0, <<>>, arg)
                         /\ UNCHANGED <<db_sessions, st>>
                    ELSE /\ db_sessions' = res.sessions
                         /\ st' = Reloaded(u, res.sessions)
                         /\ last' = Report(u, "edit_session", TRUE,
                                           "Session updated!", 0, <<>>, arg)
           ELSE /\ last' = Report(u, "edit_session", FALSE, "Fill required fields!",
                                  0, <<>>, arg)
                /\ UNCHANGED <<db_sessions, st>>
    /\ UNCHANGED <<db_users, db_preferences, nextId, pc>>

\* "Save Changes" of the edit form for the session at position index of the
\* cached list, lines 733-775
EditSession(u, index, edit_academy, edit_group, edit_date, edit_hours, edit_rate, edit_notes) ==
    /\ HasTabs(u)
    /\ index \in 1..Len(st[u].sessions)
    /\ Renderable(st[u].sessions[index])
    /\ LET session == st[u].sessions[index]
           new == updated_session(edit_academy, edit_group, edit_date,
                                  edit_hours, edit_rate, edit_notes)
           arg == [id |-> session.id, session |-> session, new |-> new,
                   form |-> [academy |-> edit_academy, group |-> edit_group,
                             date |-> edit_date, hours |-> edit_hours,
                             rate |-> edit_rate, notes |-> edit_notes]]
       IN  IF edit_valid(edit_academy, edit_group)
           THEN LET res == update_session(db_sessions, session.id, new)
                IN  IF res.raised
                    THEN /\ last' = Report(u, "edit_session", FALSE, "NotFound",
                                           0, <<>>, arg)
                         /\ UNCHANGED <<db_sessions, st>>
                    ELSE /\ db_sessions' = res.sessions
                         /\ st' = Reloaded(u, res.sessions)
                         /\ last' = Report(u, "edit_session", TRUE,
                                           "Session updated!", 0, <<>>, arg)
           ELSE /\ last' = Report(u, "edit_session", FALSE, "Fill required fields!",
                                  0, <<>>, arg)
                /\ UNCHANGED <<db_sessions, st>>
    /\ UNCHANGED <<db_users, db_preferences, nextId, pc>>

\* "Delete Selected" for the session at position index, lines 784-793
DeleteSelected(u, index) ==
    /\ PastEditForm(u)
    /\ index \in 1..Len(st[u].sessions)
    /\ LET session_id == st[u].sessions[index].id
           res == delete_session(db_sessions, session_id)
       IN  IF res.raised
           THEN /\ last' = Report(u, "delete_session", FALSE, "NotFound", 0, <<>>,
                                  [id |-> session_id])
                /\ UNCHANGED <<db_sessions, st>>
           ELSE /\ db_sessions' = res.sessions
                /\ st' = Reloaded(u, res.sessions)
                /\ last' = Report(u, "delete_session", TRUE, "Deleted!", 0, <<>>,
                                  [id |-> session_id])
    /\ UNCHANGED <<db_users, db_preferences, nextId, pc>>

\* "Clear All Data", lines 799-803
ClearAll(u) ==
    /\ PastEditForm(u)
    /\ db_sessions' = delete_all_sessions(db_sessions, st[u].user_email)
    /\ st' = [st EXCEPT ![u].sessions = <<>>]
    /\ last' = Report(u, "clear_all", TRUE, "All cleared!", 0, <<>>, NoArg)
    /\ UNCHANGED <<db_users, db_preferences, nextId, pc>>

-----------------------------------------------------------------------------
(* Tab "Preferences" (lines 805-938).  It is the last tab, so its buttons  *)
(* are reached only when the script got past the Manage tab.  prefs is the  *)
(* UI session's st.session_state.preferences; every handler writes the      *)
(* whole dict back with save_preferences.                                   *)

\* db.collection('preferences').document(email).set(preferences)
save_preferences(preferences, email, prefs) ==
    [e \in DOMAIN preferences \cup {email} |->
        IF e = email THEN prefs ELSE preferences[e]]

\* the test of the Add buttons without "not in prefs.get(...)"
can_add_any(list, new_value) == new_value # ""

\* if new_academy and new_academy not in prefs.get('academies', []), lines
\* 823 and 865
can_add(list, new_value) == new_value # "" /\ new_value \notin Range(list)

\* list.remove(value): the list without the first occurrence of value
RECURSIVE remove(_, _)
remove(list, value) ==
    IF list = <<>> THEN <<>>
    ELSE IF Head(list) = value THEN Tail(list)
    ELSE <<Head(list)>> \o remove(Tail(list), value)

\* df[field] of the cached sessions, in the order of the list
Column(sessions, field) == [i \in 1..Len(sessions) |-> sessions[i][field]]

\* Series.unique(): the distinct values in the order of their first appearance
RECURSIVE unique(_)
unique(values) ==
    IF values = <<>> THEN <<>>
    ELSE LET before == unique(SubSeq(values, 1, Len(values) - 1))
             x == values[Len(values)]
         IN  IF x \in Range(before) THEN before ELSE Append(before, x)

\* the comprehension without its filter: every distinct value is new
not_in_unfiltered(unique_values, current) == unique_values

\* [a for a in unique_values if a not in current], lines 926-927
not_in(unique_values, current) ==
    IF unique_values = <<>> THEN <<>>
    ELSE LET keep == {i \in 1..Len(unique_values) : unique_values[i] \notin Range(current)}
         IN  [k \in 1..Cardinality(keep) |->
                unique_values[CHOOSE i \in keep :
                    Cardinality({j \in keep : j < i}) = k - 1]]

\* save_preferences(...), st.session_state.preferences = prefs, with the
\* message and inputs of the handler
SavePrefs(u, prefs, op, msg, arg) ==
    /\ db_preferences' = save_preferences(db_preferences, st[u].user_email, prefs)
    /\ st' = [st EXCEPT ![u].preferences = prefs]
    /\ last' = Report(u, op, TRUE, msg, 0, <<>>, arg)

\* the Add button of the academy list, lines 822-830
AddAcademy(u, new_academy) ==
    /\ PastEditForm(u)
    /\ LET prefs == st[u].preferences
       IN  IF can_add(prefs.academies, new_academy)
           THEN SavePrefs(u, [prefs EXCEPT !.academies = Append(@, new_academy)],
                          "add_academy", "Added", [name |-> new_academy])
           ELSE /\ UNCHANGED <<db_preferences, st>>
                /\ last' = Report(u, "add_academy", FALSE, "", 0, <<>>,
                                  [name |-> new_academy])
    /\ UNCHANGED <<db_users, db_sessions, nextId, pc>>

\* the remove button next to entry number index of the academy list, lines
\* 833-849
RemoveAcademy(u, index) ==
    /\ PastEditForm(u)
    /\ index \in 1..Len(st[u].preferences.academies)
    /\ LET prefs == st[u].preferences
           academy == prefs.academies[index]
       IN  SavePrefs(u, [prefs EXCEPT !.academies = remove(@, academy)],
                     "remove_academy", "", [name |-> academy])
    /\ UNCHANGED <<db_users, db_sessions, nextId, pc>>

\* the Add button of the group list, lines 864-872
AddGroup(u, new_group) ==
    /\ PastEditForm(u)
    /\ LET prefs == st[u].preferences
       IN  IF can_add(prefs.groups, new_group)
           THEN SavePrefs(u, [prefs EXCEPT !.groups = Append(@, new_group)],
                          "add_group", "Added", [name |-> new_group])
           ELSE /\ UNCHANGED <<db_preferences, st>>
                /\ last' = Report(u, "add_group", FALSE, "", 0, <<>>,
                                  [name |-> new_group])
    /\ UNCHANGED <<db_users, db_sessions, nextId, pc>>

\* the remove button next to entry number index of the group list, lines
\* 875-891
RemoveGroup(u, index) ==
    /\ PastEditForm(u)
    /\ index \in 1..Len(st[u].preferences.groups)
    /\ LET prefs == st[u].preferences
           group == prefs.groups[index]
       IN  SavePrefs(u, [prefs EXCEPT !.groups = remove(@, group)],
                     "remove_group", "", [name |-> group])
    /\ UNCHANGED <<db_users, db_sessions, nextId, pc>>

\* the form "default_rate_form", lines 897-908
SaveDefaultRate(u, default_rate) ==
    /\ PastEditForm(u)
    /\ default_rate >= MinRate
    /\ LET prefs == st[u].preferences
       IN  SavePrefs(u, [prefs EXCEPT !.default_rate = default_rate],
                     "default_rate", "Default rate updated!",
                     [rate |-> default_rate])
    /\ UNCHANGED <<db_users, db_sessions, nextId, pc>>

\* prefs after "Import Academies & Groups from Sessions", lines 916-930
imported_prefs(prefs, sessions) ==
    LET new_academies == not_in(unique(Column(sessions, "academy")), prefs.academies)
        new_groups == not_in(unique(Column(sessions, "group")), prefs.groups)
    IN  [prefs EXCEPT !.academies = @ \o new_academies, !.groups = @ \o new_groups]

\* the button "Import Academies & Groups from Sessions", lines 914-938
ImportFromSessions(u) ==
    /\ PastEditForm(u)
    /\ LET prefs == st[u].preferences
       IN  IF st[u].sessions # <<>>
           THEN SavePrefs(u, imported_prefs(prefs, st[u].sessions),
                          "import_prefs", "Added", NoArg)
           ELSE /\ UNCHANGED <<db_preferences, st>>
                /\ last' = Report(u, "import_prefs", FALSE,
                                  "No sessions found to import from.", 0, <<>>,
                                  NoArg)
    /\ UNCHANGED <<db_users, db_sessions, nextId, pc>>

-----------------------------------------------------------------------------
(* Dashboard, Analytics and All Sessions tabs (lines 253-465).  They only  *)
(* display: the aggregates are computed from the cached list on every run  *)
(* of the script.  A data frame is the sequence of its rows; `now` is what *)
(* datetime.now() returns, its date and whether its time of day is past    *)
(* 00:00 (time 1) or exactly 00:00 (time 0).                               *)

\* df = pd.DataFrame(sessions); df['date'] = pd.to_datetime(df['date']),
\* lines 256-257
DataFrame(sessions) ==
    [i \in 1..Len(sessions) |->
        [sessions[i] EXCEPT !.date = Ymd2Ord(@[1], @[2], @[3])]]

\* Series.sum() of a column: 0 for no rows
RECURSIVE sum(_, _)
sum(rows, field) ==
    IF rows = <<>> THEN 0 ELSE Head(rows)[field] + sum(Tail(rows), field)

\* dt.year and dt.month of a date, dt.to_period('M')
Period(date) == <<Ord2Ymd(date)[1], Ord2Ymd(date)[2]>>

\* the key of a row in groupby('academy') and in
\* groupby(date.dt.to_period('M'))
KeyOf(row, by) == IF by = "period" THEN Period(row.date) ELSE row[by]

\* the order of the group keys: year-months by time, strings as Python
\* compares them
Collation == <<"", "A1", "A2">>
Rank(k, by) ==
    IF by = "period" THEN k[1] * 12 + k[2]
    ELSE CHOOSE i \in 1..Len(Collation) : Collation[i] = k

\* keys in ascending order (groupby sorts the group keys)
SortedKeys(S, by) ==
    CHOOSE s \in [1..Cardinality(S) -> S] :
        \A i, j \in 1..Cardinality(S) : i < j => Rank(s[i], by) < Rank(s[j], by)

\* the keys of groupby(by): every value of the key among the rows
group_keys(rows, by) == {KeyOf(rows[i], by) : i \in DOMAIN rows}

\* an aggregation that takes the first row of each group instead of its sums
agg_first(rows, by, k) ==
    LET members == SelectSeq(rows, LAMBDA r : KeyOf(r, by) = k)
    IN  [key |-> k, hours |-> Head(members).hours,
         amount |-> Head(members).amount, sessions |-> 1]

\* agg({'hours': 'sum', 'amount': 'sum', <column>: 'count'}) of one group
agg(rows, by, k) ==
    LET members == SelectSeq(rows, LAMBDA r : KeyOf(r, by) = k)
    IN  [key |-> k, hours |-> sum(members, "hours"),
         amount |-> sum(members, "amount"), sessions |-> Len(members)]

\* rows.groupby(by).agg(...): one row per key, in the order of the keys
groupby(rows, by) ==
    LET order == SortedKeys(group_keys(rows, by), by)
    IN  [n \in 1..Len(order) |-> agg(rows, by, order[n])]

\* sort_values that leaves the rows in the order of their keys
sort_values_skipped(rows, field, ascending) == {rows}

\* sort_values(field, ascending=...): the rows ordered by the field; pandas
\* does not fix the order of rows with equal values
sort_values(rows, field, ascending) ==
    {s \in [1..Len(rows) -> Range(rows)] :
        /\ Range(s) = Range(rows)
        /\ \A i, j \in 1..Len(rows) : i < j =>
              IF ascending THEN s[i][field] <= s[j][field]
              ELSE s[i][field] >= s[j][field]}

\* the filter of line 267 that compares the month and not the year
current_month_data_any_year(df, now) ==
    SelectSeq(df, LAMBDA r : Period(r.date)[2] = Period(now.date)[2])

\* the rows of the current month and year, lines 265-267
current_month_data(df, now) ==
    SelectSeq(df, LAMBDA r : Period(r.date) = Period(now.date))

\* the four metrics of the dashboard, lines 273-286
metrics(data) ==
    [total_hours |-> sum(data, "hours"), total_amount |-> sum(data, "amount"),
     num_sessions |-> Len(data),
     num_academies |-> Cardinality({data[i].academy : i \in DOMAIN data})]

\* the Dashboard tab: without sessions the page shows an info message and no
\* tab (lines 253-254); the revenue chart is computed for a non-empty month
\* only (line 295)
ShowDashboard(u, now) ==
    /\ st[u].logged_in
    /\ IF st[u].sessions = <<>>
       THEN last' = Report(u, "dashboard", TRUE, "Start by logging your first session",
                           0, <<>>, [now |-> now, metrics |-> <<>>,
                                     academy_revenue |-> <<>>, academy_summary |-> <<>>])
       ELSE LET data == current_month_data(DataFrame(st[u].sessions), now)
                by_academy == groupby(data, "academy")
            IN  \E academy_revenue \in sort_values(by_academy, "amount", TRUE),
                   academy_summary \in sort_values(by_academy, "amount", FALSE) :
                    last' = Report(u, "dashboard", TRUE, "", 0, <<>>,
                                   [now |-> now, metrics |-> <<metrics(data)>>,
                                    academy_revenue |-> academy_revenue,
                                    academy_summary |-> academy_summary])
    /\ UNCHANGED <<db_users, db_sessions, db_preferences, nextId, st, pc>>

\* date - pd.DateOffset(months=n): n calendar months earlier, the day cut to
\* the length of that month
minus_months(date, n) ==
    LET ymd == Ord2Ymd(date)
        months == ymd[1] * 12 + (ymd[2] - 1) - n
        y == months \div 12
        m == (months % 12) + 1
    IN  Ymd2Ord(y, m, IF ymd[3] > DaysInMonth(y, m) THEN DaysInMonth(y, m) ELSE ymd[3])

\* df[df['date'] >= cutoff_date], lines 342-343: a session's date is its day
\* at 00:00
recent_data(df, now, months_back) ==
    LET cutoff_date == [date |-> minus_months(now.date, months_back), time |-> now.time]
    IN  SelectSeq(df, LAMBDA r :
            r.date > cutoff_date.date \/ (r.date = cutoff_date.date /\ cutoff_date.time = 0))

\* the Analytics tab, lines 334-389
ShowAnalytics(u, now, months_back) ==
    /\ HasTabs(u)
    /\ LET data == recent_data(DataFrame(st[u].sessions), now, months_back)
           monthly_stats == groupby(data, "period")
       IN  \E academy_stats \in sort_values(groupby(data, "academy"), "amount", FALSE) :
               last' = Report(u, "analytics", TRUE, "", 0, <<>>,
                              [now |-> now, months_back |-> months_back,
                               recent_data |-> data,
                               monthly_stats |-> monthly_stats,
                               academy_stats |-> academy_stats])
    /\ UNCHANGED <<db_users, db_sessions, db_preferences, nextId, st, pc>>

\* the option "All" of the month filter, among year-months
AllMonths == <<0, 0>>

\* the filters of the All Sessions tab, lines 438-444
filtered_df(df, selected_academy, selected_month, selected_group) ==
    SelectSeq(df, LAMBDA r :
        /\ selected_academy # "All" => r.academy = selected_academy
        /\ selected_month # AllMonths => Period(r.date) = selected_month
        /\ selected_group # "All" => r.group = selected_group)

\* the All Sessions tab, lines 424-465: each filter offers "All" and the
\* values found in the sessions
ShowAllSessions(u, selected_academy, selected_month, selected_group) ==
    /\ HasTabs(u)
    /\ LET df == DataFrame(st[u].sessions)
           data == filtered_df(df, selected_academy, selected_month, selected_group)
       IN  /\ selected_academy \in {"All"} \cup {df[i].academy : i \in DOMAIN df}
           /\ selected_month \in {AllMonths} \cup {Period(df[i].date) : i \in DOMAIN df}
           /\ selected_group \in {"All"} \cup {df[i].group : i \in DOMAIN df}
           /\ last' = Report(u, "all_sessions", TRUE, "", 0, <<>>,
                             [academy |-> selected_academy, month |-> selected_month,
                              group |-> selected_group, sessions |-> Len(data),
                              total_hours |-> sum(data, "hours"),
                              total_amount |-> sum(data, "amount")])
    /\ UNCHANGED <<db_users, db_sessions, db_preferences, nextId, st, pc>>

-----------------------------------------------------------------------------
(* Inputs offered to the handlers. *)

\* hours and rates entered in the number inputs: 0.5, 2.0 and 0, 200.0
FormHours == {1, 4}
FormRates == {0, 400}

\* ticked weekday checkboxes
DaySets == {{}, {"Friday"}, {"Friday", "Monday"}, {"Sunday"}, {"Sunday", "Wednesday"}}

\* pasted lines
LineGood == <<"2024-11-01", "A1", "G1", "2", "250">>
LineNotes == <<"2024-11-02", "A2", "G1", "3", "200", "n">>
LineShort == <<"bad-line-only-3-fields", "x", "y">>
LineBadDate == <<"2024-02-30", "A1", "G1", "2", "250">>
LineBadHours == <<"2024-11-01", "A1", "G1", "two", "250">>
LineBadRate == <<"2024-11-01", "A1", "G1", "2", "">>
LineNoAcademy == <<"2024-11-01", "", "G1", "2", "250">>
LineNoGroup == <<"2024-11-01", "A1", "", "2", "250">>
LineNegHours == <<"2024-12-31", "A1", "G1", "-2", "250">>
\* an empty line inside the text
LineBlank == <<"">>

\* all texts of 1..n lines over a set of lines
Texts(lineSet, n) == UNION {[1..k -> lineSet] : k \in 1..n}

\* all batch forms of 1..n tuples
TupleInputs ==
    {[academy |-> a, group |-> g, hours |-> h, rate |-> DefaultRate] :
        a \in AcademyTexts, g \in GroupTexts, h \in {4}}
        \cup {[academy |-> "A1", group |-> "G1", hours |-> 1, rate |-> 0]}
Batches(n) == UNION {[1..k -> TupleInputs] : k \in 1..n}

-----------------------------------------------------------------------------------------------------------------------------------------------------------------------------------------------------------------------------
(* Bounded exploration: the handlers that add documents, explored while    *)
(* fewer than n documents were added to 'sessions'.                        *)

AddSessionWithin(n, u, academy, group, session_date, hours, rate, notes) ==
    /\ nextId < n
    /\ AddSession(u, academy, group, session_date, hours, rate, notes)

WeeklyScheduleWithin(n, u, ws_academy, ws_group, ws_hours, ws_rate, ws_notes, start_date, num_weeks, ticked) ==
    /\ nextId < n
    /\ WeeklySchedule(u, ws_academy, ws_group, ws_hours, ws_rate, ws_notes,
                      start_date, num_weeks, ticked)

MultipleSessionsWithin(n, u, ms_date, sessions_data) ==
    /\ nextId < n
    /\ MultipleSessions(u, ms_date, sessions_data)

ImportTextWithin(n, u, lines) ==
    /\ nextId < n
    /\ ImportText(u, lines)

-----------------------------------------------------------------------------
(* The application with two browser tabs on one account; every input adds  *)
(* at most one document.                                                   *)

Account == "a@x"

Next ==
    \E u \in UIs :
        \/ \E p \in {"p", "q"} : Login(u, Account, p)
        \/ \E c \in {"p", "q"} : SignupSubmit(u, Account, "p", c)
        \/ SignupCreate(u)
        \/ Logout(u)
        \/ \E a \in {"", "A1"} :
              AddSessionWithin(MaxSessions, u, a, "G1", 739191, 4, DefaultRate, "")
        \/ \E D \in {{}, {"Friday"}} :
              WeeklyScheduleWithin(MaxSessions, u, "A1", "G1", 4, DefaultRate, "",
                                   739191, 1, D)
        \/ \E b \in Batches(1) : MultipleSessionsWithin(MaxSessions, u, 739191, b)
        \/ \E t \in Texts({LineShort, LineNoAcademy, LineNegHours}, 1) :
              ImportTextWithin(MaxSessions, u, t)
        \/ \E i \in 1..MaxSessions, a \in {"", "A2"} :
              EditSession(u, i, a, "G1", 739250, 1, 0, "n")
        \/ \E i \in 1..MaxSessions : DeleteSelected(u, i)
        \/ ClearAll(u)

Spec == Init /\ [][Next]_vars

-----------------------------------------------------------------------------
(* The authentication forms alone: two browser tabs, two accounts, every   *)
(* way of filling in the sign-up form.                                     *)

NextAuth ==
    \E u \in UIs :
        \/ \E e \in Emails, p \in Passwords : Login(u, e, p)
        \/ \E e \in Emails \cup {""}, p \in Passwords \cup {""}, c \in Passwords :
              SignupSubmit(u, e, p, c)
        \/ SignupCreate(u)
        \/ Logout(u)

SpecAuth == Init /\ [][NextAuth]_vars

-----------------------------------------------------------------------------
(* One browser tab on one account, for the three bulk generators: the      *)
(* account is created, logs in and logs sessions in the sidebar, and the   *)
(* generator runs with every input while at most MaxPrior documents were   *)
(* added before.  A bulk form is not submitted again right after its own   *)
(* submission: no handler reads `last`, and the collections and cached     *)
(* lists it leaves are submitted to again after a Logout and a Login.      *)

Setup(u) ==
    \/ SignupSubmit(u, Account, "p", "p")
    \/ SignupCreate(u)
    \/ Login(u, Account, "p")
    \/ Logout(u)
    \/ AddSessionWithin(MaxPrior, u, "A2", "G1", 739250, 1, 0, "n")

WeeklyScheduleOnce(n, u, ws_academy, ws_group, ws_hours, ws_rate, ws_notes, start_date, num_weeks, ticked) ==
    /\ last.op # "weekly_schedule"
    /\ WeeklyScheduleWithin(n, u, ws_academy, ws_group, ws_hours, ws_rate, ws_notes,
                            start_date, num_weeks, ticked)

MultipleSessionsOnce(n, u, ms_date, sessions_data) ==
    /\ last.op # "multiple_sessions"
    /\ MultipleSessionsWithin(n, u, ms_date, sessions_data)

ImportTextOnce(n, u, lines) ==
    /\ last.op # "import_text"
    /\ ImportTextWithin(n, u, lines)

NextWeekly ==
    \/ Setup("u1")
    \/ \E a \in AcademyTexts, g \in GroupTexts, h \in FormHours, r \in FormRates,
          s \in FormDates, w \in 1..MaxWeeks, D \in DaySets :
          WeeklyScheduleOnce(MaxPrior + 1, "u1", a, g, h, r, "n", s, w, D)

SpecWeekly == Init /\ [][NextWeekly]_vars

NextMultiple ==
    \/ Setup("u1")
    \/ \E d \in FormDates, b \in Batches(MaxTuples) :
          MultipleSessionsOnce(MaxPrior + 1, "u1", d, b)

SpecMultiple == Init /\ [][NextMultiple]_vars

ImportLines ==
    {LineGood, LineNotes, LineShort, LineBlank, LineBadDate, LineBadHours,
     LineBadRate, LineNoGroup}

NextImport ==
    \/ Setup("u1")
    \/ \E t \in Texts(ImportLines, MaxLines) : ImportTextOnce(MaxPrior + 1, "u1", t)

SpecImport == Init /\ [][NextImport]_vars

-----------------------------------------------------------------------------
(* The edit form used from two browser tabs on one account: sessions are   *)
(* logged in the sidebar and edited with every combination of academy and  *)
(* hours of the form.                                                      *)

NextEdit ==
    \/ SignupSubmit("u1", Account, "p", "p")
    \/ SignupCreate("u1")
    \/ \E u \in UIs :
        \/ Login(u, Account, "p")
        \/ Logout(u)
        \/ AddSessionWithin(MaxSessions, u, "A1", "G1", 739191, 4, DefaultRate, "")
        \/ \E i \in 1..MaxSessions, a \in {"", "A2"}, h \in FormHours :
              EditSession(u, i, a, "G2", 739250, h, 0, "n")

SpecEdit == Init /\ [][NextEdit]_vars

-----------------------------------------------------------------------------
(* The Preferences tab used from two browser tabs on one account: each tab *)
(* works on its own st.session_state.preferences and writes it back whole. *)

NextPrefTabs ==
    \/ SignupSubmit("u1", Account, "p", "p")
    \/ SignupCreate("u1")
    \/ \E u \in UIs :
        \/ Login(u, Account, "p")
        \/ Logout(u)
        \/ \E a \in {"A1", "A2"} :
              AddSessionWithin(MaxPrior, u, a, "G1", 739191, 4, DefaultRate, "")
        \/ \E a \in {"", "A1"} : AddAcademy(u, a)
        \/ \E g \in {"", "G1"} : AddGroup(u, g)
        \/ \E i \in 1..(MaxPrior + 1) : RemoveAcademy(u, i)
        \/ \E i \in 1..(MaxPrior + 1) : RemoveGroup(u, i)
        \/ SaveDefaultRate(u, 0)
        \/ ImportFromSessions(u)

SpecPrefTabs == Init /\ [][NextPrefTabs]_vars

-----------------------------------------------------------------------------
(* The Preferences tab in one browser tab: sessions of two academies and   *)
(* two groups are logged in the sidebar, names are added to and removed    *)
(* from the lists, and the lists are filled from the sessions.             *)

NextPrefs ==
    \/ SignupSubmit("u1", Account, "p", "p")
    \/ SignupCreate("u1")
    \/ Login("u1", Account, "p")
    \/ Logout("u1")
    \/ \E a \in {"A1", "A2"}, g \in {"G1", "G2"} :
          AddSessionWithin(MaxSessions, "u1", a, g, 739191, 4, DefaultRate, "")
    \/ \E a \in {"", "A1", "A3"} : AddAcademy("u1", a)
    \/ \E g \in {"", "G2"} : AddGroup("u1", g)
    \/ \E i \in 1..(MaxSessions + 1) : RemoveAcademy("u1", i)
    \/ \E i \in 1..MaxSessions : RemoveGroup("u1", i)
    \/ \E r \in {0, 500} : SaveDefaultRate("u1", r)
    \/ ImportFromSessions("u1")

SpecPrefs == Init /\ [][NextPrefs]_vars

-----------------------------------------------------------------------------
(* One browser tab and two accounts: the tab signs up, logs in and out as  *)
(* either account, logs sessions one by one, by the weekly generator and   *)
(* by text import, edits and deletes them and changes the preferences.     *)

NextAccounts ==
    \/ \E e \in Emails : SignupSubmit("u1", e, "p", "p")
    \/ SignupCreate("u1")
    \/ \E e \in Emails : Login("u1", e, "p")
    \/ Logout("u1")
    \/ AddSessionWithin(MaxSessions, "u1", "A1", "G1", 739191, 4, DefaultRate, "")
    \/ WeeklyScheduleWithin(MaxSessions, "u1", "A1", "G1", 4, DefaultRate, "",
                            739191, 1, {"Friday"})
    \/ ImportTextWithin(MaxSessions, "u1", <<LineNotes>>)
    \/ \E i \in 1..MaxSessions : EditSession("u1", i, "A2", "G1", 739250, 1, 0, "n")
    \/ \E i \in 1..MaxSessions : DeleteSelected("u1", i)
    \/ ClearAll("u1")
    \/ AddAcademy("u1", "A1")
    \/ RemoveAcademy("u1", 1)
    \/ SaveDefaultRate("u1", 0)
    \/ ImportFromSessions("u1")

SpecAccounts == Init /\ [][NextAccounts]_vars

-----------------------------------------------------------------------------
(* The three display tabs in one browser tab: sessions of two academies,   *)
(* two months and two lengths are logged in the sidebar, a line without    *)
(* academy is imported, and the tabs are shown at three instants: 30       *)
(* December 2024 during the day, 1 November 2025 at 00:00 and later that   *)
(* day.                                                                    *)

Nows ==
    {[date |-> 739250, time |-> 1], [date |-> 739556, time |-> 0],
     [date |-> 739556, time |-> 1]}

\* a display tab is shown after a step that was not itself a display: showing
\* a tab changes nothing but what is displayed
AfterDisplay == last.op \in {"dashboard", "analytics", "all_sessions"}

ShowDashboardOnce(u, now) ==
    /\ ~AfterDisplay
    /\ ShowDashboard(u, now)

ShowAnalyticsOnce(u, now, months_back) ==
    /\ ~AfterDisplay
    /\ ShowAnalytics(u, now, months_back)

ShowAllSessionsOnce(u, selected_academy, selected_month, selected_group) ==
    /\ ~AfterDisplay
    /\ ShowAllSessions(u, selected_academy, selected_month, selected_group)

NextViews ==
    \/ SignupSubmit("u1", Account, "p", "p")
    \/ SignupCreate("u1")
    \/ Login("u1", Account, "p")
    \/ Logout("u1")
    \/ \E a \in {"A1", "A2"}, d \in FormDates, h \in FormHours :
          AddSessionWithin(MaxViewed, "u1", a, "G1", d, h, DefaultRate, "")
    \/ ImportTextWithin(MaxViewed, "u1", <<LineNoAcademy>>)
    \/ \E now \in Nows : ShowDashboardOnce("u1", now)
    \/ \E now \in Nows, months_back \in {1, 12} :
          ShowAnalyticsOnce("u1", now, months_back)
    \/ \E a \in {"All", "A1"}, m \in {AllMonths, <<2024, 12>>}, g \in {"All", "G1"} :
          ShowAllSessionsOnce("u1", a, m, g)

SpecViews == Init /\ [][NextViews]_vars

-----------------------------------------------------------------------------
(* The text importer with texts of one line more than the warning shows:   *)
(* every text of that length made of two lines that fail and a line that   *)
(* is imported.                                                            *)

LongTexts == [1..(ErrorsShown + 1) -> {LineShort, LineBadHours, LineGood}]

NextErrors ==
    \/ Setup("u1")
    \/ \E t \in LongTexts : ImportTextOnce(MaxPrior + 1, "u1", t)

SpecErrors == Init /\ [][NextErrors]_vars

-----------------------------------------------------------------------------
(* Properties of the stored sessions (checked under Spec). *)

\* C1: every stored session has amount = hours * rate for the hours and rate
\* stored with it, whichever handler wrote it last; after an edit the amount
\* is the product of the new values.
AmountIsHoursTimesRate ==
    \A i \in DOMAIN db_sessions :
        db_sessions[i].amount = db_sessions[i].hours * db_sessions[i].rate

\* an edit has just replaced hours, rate and amount of a stored session
EditChangedAmount ==
    /\ last.op = "edit_session"
    /\ last.ok
    /\ last.arg.id \in DOMAIN db_sessions
    /\ last.arg.session.hours # last.arg.new.hours
    /\ last.arg.session.rate # last.arg.new.rate
    /\ last.arg.session.amount # db_sessions[last.arg.id].amount
    /\ db_sessions[last.arg.id].hours = last.arg.new.hours

\* C2: no stored session has an empty academy or an empty group.
NoEmptyAcademyOrGroup ==
    \A i \in DOMAIN db_sessions :
        db_sessions[i].academy # "" /\ db_sessions[i].group # ""

\* C3: every stored session has positive hours and a non-negative rate.
HoursPositiveRateNonNegative ==
    \A i \in DOMAIN db_sessions :
        db_sessions[i].hours > 0 /\ db_sessions[i].rate >= 0

\* C8: deleting an id that is not in the collection is reported as NotFound
\* and leaves the collection unchanged.
DeleteMissingIsNotFound ==
    [][(last'.op = "delete_session" /\ last'.arg.id \notin DOMAIN db_sessions)
          => (~last'.ok /\ last'.msg = "NotFound" /\ db_sessions' = db_sessions)]_vars

\* C9: editing an id that is not in the collection ends in a failure, creates
\* no document and changes none.
EditMissingFailsWithoutMutation ==
    [][(last'.op = "edit_session" /\ last'.arg.id \notin DOMAIN db_sessions)
          => (~last'.ok /\ db_sessions' = db_sessions /\ nextId' = nextId)]_vars

\* an edit of a session that another tab deleted has just failed
EditOfMissingFailed ==
    /\ last.op = "edit_session"
    /\ last.msg = "NotFound"
    /\ ~last.ok
    /\ last.arg.id \notin DOMAIN db_sessions
    /\ last.arg.new.academy # ""

-----------------------------------------------------------------------------
(* Properties of the sign-up form (checked under SpecAuth). *)

\* C10: a sign-up submitted for an account that exists, with an empty email
\* or password, or with a confirmation that differs, shows an error, leaves
\* 'users' unchanged and never proceeds to create_user.
SignupRejectsWithoutOverwrite ==
    [][(/\ last'.op = "signup_check"
        /\ \/ last'.arg.email \in DOMAIN db_users
           \/ last'.arg.email = ""
           \/ last'.arg.password = ""
           \/ last'.arg.password # last'.arg.confirm)
          => (/\ ~last'.ok
              /\ last'.msg # ""
              /\ db_users' = db_users
              /\ pc'[last'.ui].at = "idle")]_vars

\* a sign-up for an existing account with another password was just refused
\* and the stored hash is still the one of the first password
DuplicateSignupRefused ==
    /\ last.op = "signup_check"
    /\ last.msg = "Email already exists!"
    /\ last.arg.email \in DOMAIN db_users
    /\ db_users[last.arg.email].password # hash_password(last.arg.password)

-----------------------------------------------------------------------------
(* Properties of the weekly-recurrence generator (checked under            *)
(* SpecWeekly).                                                            *)

\* the documents of before the step are all still there, unchanged
OldSessionsKept ==
    \A i \in DOMAIN db_sessions :
        i \in DOMAIN db_sessions' /\ db_sessions'[i] = db_sessions[i]

\* the ids of the documents added by the step
NewIds == DOMAIN db_sessions' \ DOMAIN db_sessions

\* the day of the week of a date, counted from Friday 2024-11-01
DayNameOf(d) ==
    <<"Friday", "Saturday", "Sunday", "Monday", "Tuesday", "Wednesday",
      "Thursday">>[((d - 739191) % 7) + 1]

\* C4: with a non-empty academy, group and weekday set, the generator adds
\* exactly one session for every date of the num_weeks weeks from start_date
\* whose day of the week is ticked, and nothing else: num_weeks * |ticked|
\* sessions, all with the submitted academy, group, hours, rate and notes.
WeeklyOnePerTickedDate ==
    [][(/\ last'.op = "weekly_schedule"
        /\ last'.arg.academy # ""
        /\ last'.arg.group # ""
        /\ last'.arg.ticked # {})
          => LET arg == last'.arg
                 wanted == {d \in arg.start_date..(arg.start_date + 7 * arg.num_weeks - 1) :
                               DayNameOf(d) \in arg.ticked}
             IN  /\ last'.ok
                 /\ OldSessionsKept
                 /\ Cardinality(NewIds) = arg.num_weeks * Cardinality(arg.ticked)
                 /\ last'.count = Cardinality(NewIds)
                 /\ \A d \in wanted :
                       Cardinality({i \in NewIds : db_sessions'[i].date = Strftime(d)}) = 1
                 /\ \A i \in NewIds :
                       /\ \E d \in wanted : db_sessions'[i].date = Strftime(d)
                       /\ db_sessions'[i].academy = arg.academy
                       /\ db_sessions'[i].group = arg.group
                       /\ db_sessions'[i].hours = arg.hours
                       /\ db_sessions'[i].rate = arg.rate
                       /\ db_sessions'[i].notes = arg.notes
                       /\ db_sessions'[i].user_email = st[last'.ui].user_email]_vars

\* start Friday 2024-11-01, 2 weeks, {Friday, Monday}: the four sessions of
\* 2024-11-01, 2024-11-04, 2024-11-08 and 2024-11-11 have just been added
WeeklyExampleAdded ==
    /\ last.op = "weekly_schedule"
    /\ last.ok
    /\ last.count = 4
    /\ last.arg.start_date = 739191
    /\ last.arg.num_weeks = 2
    /\ last.arg.ticked = {"Friday", "Monday"}
    /\ {db_sessions[i].date : i \in {j \in DOMAIN db_sessions :
                                       db_sessions[j].academy = "A1"}}
         = {<<2024, 11, 1>>, <<2024, 11, 4>>, <<2024, 11, 8>>, <<2024, 11, 11>>}

\* C5: with an empty academy, an empty group or no weekday ticked, the
\* generator adds nothing, changes neither the collection nor the cached
\* list and shows an error.
WeeklyInvalidAddsNothing ==
    [][(/\ last'.op = "weekly_schedule"
        /\ \/ last'.arg.academy = ""
           \/ last'.arg.group = ""
           \/ last'.arg.ticked = {})
          => (/\ ~last'.ok
              /\ last'.msg = "Fill all required fields and select at least one day!"
              /\ last'.count = 0
              /\ db_sessions' = db_sessions
              /\ nextId' = nextId
              /\ st' = st)]_vars

\* the generator was just refused for the only reason that no day is ticked
WeeklyRefusedWithoutDays ==
    /\ last.op = "weekly_schedule"
    /\ ~last.ok
    /\ last.arg.academy # ""
    /\ last.arg.group # ""
    /\ last.arg.ticked = {}
    /\ DOMAIN db_sessions # {}

-----------------------------------------------------------------------------
(* Properties of the batch-entry generator (checked under SpecMultiple).   *)

\* C7: the batch form adds one session, dated with the shared date, for
\* every tuple with a non-empty academy and a non-empty group, in order, and
\* none for the others, without any per-item error; when no tuple qualifies
\* nothing is added and one error is shown.
BatchOnePerCompleteTuple ==
    [][last'.op = "multiple_sessions"
          => LET data == last'.arg.sessions_data
                 good == SortedIds({k \in 1..Len(data) :
                                      data[k].academy # "" /\ data[k].group # ""})
             IN  /\ OldSessionsKept
                 /\ last'.errors = <<>>
                 /\ NewIds = {nextId + j : j \in 1..Len(good)}
                 /\ \A j \in 1..Len(good) :
                       /\ db_sessions'[nextId + j].academy = data[good[j]].academy
                       /\ db_sessions'[nextId + j].group = data[good[j]].group
                       /\ db_sessions'[nextId + j].hours = data[good[j]].hours
                       /\ db_sessions'[nextId + j].rate = data[good[j]].rate
                       /\ db_sessions'[nextId + j].date = Strftime(last'.arg.date)
                 /\ IF good = <<>>
                    THEN /\ ~last'.ok
                         /\ last'.msg = "Fill academy and group for at least one session!"
                         /\ db_sessions' = db_sessions
                    ELSE /\ last'.ok
                         /\ last'.count = Len(good)]_vars

\* a batch of two tuples has just added one session and dropped the tuple
\* that has no group
BatchDroppedOneTuple ==
    /\ last.op = "multiple_sessions"
    /\ last.ok
    /\ last.count = 1
    /\ Len(last.arg.sessions_data) = 2
    /\ last.arg.sessions_data[1].group = ""
    /\ last.arg.sessions_data[1].academy # ""
    /\ Cardinality(DOMAIN db_sessions) = 2

-----------------------------------------------------------------------------
(* Properties of the delimited-text importer (checked under SpecImport).   *)

\* the lines that have fewer than 5 fields, a date that cannot be parsed or
\* a non-numeric hours or rate
FailingLines == {LineShort, LineBlank, LineBadDate, LineBadHours, LineBadRate}

\* C6: every line either adds exactly one session or records exactly one
\* error carrying its 1-based index, so imported + errors = lines; a failing
\* line stops nothing and removes nothing: every other line is still
\* processed, in order.
ImportHandlesEveryLine ==
    [][last'.op = "import_text"
          => LET lines == last'.arg.lines
                 errs == last'.errors
                 good == SortedIds({k \in 1..Len(lines) : lines[k] \notin FailingLines})
             IN  /\ last'.count + Len(errs) = Len(lines)
                 /\ \A k \in 1..Len(lines) :
                       Cardinality({j \in 1..Len(errs) : errs[j].line = k})
                         = IF lines[k] \in FailingLines THEN 1 ELSE 0
                 /\ \A j \in 1..Len(errs) : errs[j].line \in 1..Len(lines)
                 /\ OldSessionsKept
                 /\ last'.count = Len(good)
                 /\ NewIds = {nextId + j : j \in 1..Len(good)}
                 /\ \A j \in 1..Len(good) :
                       /\ db_sessions'[nextId + j].academy = lines[good[j]][2]
                       /\ db_sessions'[nextId + j].group = lines[good[j]][3]]_vars

\* a text whose second line fails has just been imported: the first and the
\* third line were persisted (amounts 2 * 250 and 3 * 200) and one error
\* names line 2
ImportSkippedMiddleLine ==
    /\ last.op = "import_text"
    /\ last.arg.lines = <<LineGood, LineShort, LineNotes>>
    /\ last.count = 2
    /\ last.errors = <<[line |-> 2, text |-> "Not enough fields"]>>
    /\ {db_sessions[i].amount : i \in {j \in DOMAIN db_sessions : j > 1}}
         = {4 * 500, 6 * 400}

-----------------------------------------------------------------------------
(* Properties of the preference lists (checked under SpecPrefTabs and      *)
(* SpecPrefs).                                                             *)

NoDuplicates(list) == \A i, j \in 1..Len(list) : list[i] = list[j] => i = j

DistinctLists(prefs) == NoDuplicates(prefs.academies) /\ NoDuplicates(prefs.groups)

\* the step is a click on an Add button with a name that is empty or already
\* in the list the browser tab holds
AddOfPresentOrEmpty ==
    \/ /\ last'.op = "add_academy"
       /\ last'.arg.name \in {""} \cup Range(st[last'.ui].preferences.academies)
    \/ /\ last'.op = "add_group"
       /\ last'.arg.name \in {""} \cup Range(st[last'.ui].preferences.groups)

\* C11: whatever adds, removes, default-rate saves and imports from sessions
\* were made, no preference list, stored or held by a browser tab, contains a
\* name twice; an Add with a name that is empty or already in the list leaves
\* the lists, stored and held, as they were.
PreferenceListsStayDistinct ==
    /\ [](/\ \A e \in DOMAIN db_preferences : DistinctLists(db_preferences[e])
          /\ \A u \in UIs : DistinctLists(st[u].preferences))
    /\ [][AddOfPresentOrEmpty =>
             (/\ ~last'.ok
              /\ st'[last'.ui].preferences = st[last'.ui].preferences
              /\ db_preferences' = db_preferences)]_vars

\* an Add of "A1" was refused in a browser tab whose list holds "A1" along
\* with another name
AddOfListedNameRefused ==
    /\ last.op = "add_academy"
    /\ ~last.ok
    /\ last.arg.name = "A1"
    /\ "A1" \in Range(st[last.ui].preferences.academies)
    /\ Len(st[last.ui].preferences.academies) = 2

\* the values of a field in the sessions stored for an account
StoredValues(email, field) ==
    {db_sessions[i][field] : i \in {j \in DOMAIN db_sessions : db_sessions[j].user_email = email}}

\* new is old followed by each of the values that old lacks, once
OldThenMissing(old, new, values) ==
    /\ Len(new) >= Len(old)
    /\ SubSeq(new, 1, Len(old)) = old
    /\ Range(new) = Range(old) \cup values
    /\ NoDuplicates(SubSeq(new, Len(old) + 1, Len(new)))
    /\ \A i \in (Len(old) + 1)..Len(new) : new[i] \notin Range(old)

\* C12: the import from sessions sets each preference list, held and stored,
\* to its previous content followed by the distinct academy (group) values of
\* the account's sessions that the list lacked, each once; no listed name is
\* removed or moved, and the default rate is the one before.
ImportAppendsMissingSessionValues ==
    [][last'.op = "import_prefs" =>
          LET u == last'.ui
              old == st[u].preferences
              new == st'[u].preferences
          IN  /\ last'.ok
              /\ db_preferences'[st[u].user_email] = new
              /\ OldThenMissing(old.academies, new.academies,
                                StoredValues(st[u].user_email, "academy"))
              /\ OldThenMissing(old.groups, new.groups,
                                StoredValues(st[u].user_email, "group"))
              /\ new.default_rate = old.default_rate]_vars

\* after an import the list is "A3", which was there before, followed by the
\* academies "A2" and "A1" of two sessions, over a default rate of 250
ImportedAfterListedName ==
    /\ last.op = "import_prefs"
    /\ st["u1"].preferences.academies = <<"A3", "A2", "A1">>
    /\ st["u1"].preferences.default_rate = 500
    /\ db_preferences[Account] = st["u1"].preferences

-----------------------------------------------------------------------------
(* Properties of the edit form (checked under SpecEdit). *)

\* the stored document holds the values submitted in the edit form
HoldsForm(doc, form) ==
    /\ doc.academy = form.academy
    /\ doc.group = form.group
    /\ doc.date = Strftime(form.date)
    /\ doc.hours = form.hours
    /\ doc.rate = form.rate
    /\ doc.amount = form.hours * form.rate
    /\ doc.notes = form.notes

\* C13: a successful edit of a session replaces its academy, group, date,
\* hours, rate and notes by the submitted values and its amount by hours *
\* rate, keeps its id and its owner, leaves every other stored session as it
\* was and does not change the number of stored sessions.
EditReplacesOnlyTheEditedSession ==
    [][(last'.op = "edit_session" /\ last'.ok) =>
          LET id == last'.arg.id
          IN  /\ id \in DOMAIN db_sessions
              /\ DOMAIN db_sessions' = DOMAIN db_sessions
              /\ HoldsForm(db_sessions'[id], last'.arg.form)
              /\ db_sessions'[id].user_email = db_sessions[id].user_email
              /\ \A i \in DOMAIN db_sessions \ {id} : db_sessions'[i] = db_sessions[i]]_vars

\* the second of two stored sessions was edited in every field; the first is
\* as it was logged
EditedSecondOfTwo ==
    /\ last.op = "edit_session"
    /\ last.ok
    /\ last.arg.id = 2
    /\ DOMAIN db_sessions = {1, 2}
    /\ db_sessions[1] = add_session_dict("A1", "G1", 739191, 4, DefaultRate, "")
                            @@ [user_email |-> Account]
    /\ db_sessions[2] = updated_session("A2", "G2", 739250, 1, 0, "n")
                            @@ [user_email |-> Account]

\* C15: the edit form does not compare the stored session with the one the
\* browser tab had loaded: an edit with academy and group filled, of a session
\* that still exists, is accepted and stored whatever the document holds by
\* then, so of two tabs that loaded the same session and submit different
\* edits the later write is what stays stored.
LaterEditWins ==
    [][(/\ last'.op = "edit_session"
        /\ last'.arg.id \in DOMAIN db_sessions
        /\ edit_valid(last'.arg.form.academy, last'.arg.form.group)) =>
          (/\ last'.ok
           /\ HoldsForm(db_sessions'[last'.arg.id], last'.arg.form))]_vars

\* both tabs had loaded the session as it was logged; the first tab's edit
\* (0.5 hours) was accepted and is what that tab still lists; the second
\* tab's edit (2 hours), filled from the session as logged, was accepted too
\* and is what is stored: the first edit is lost
EarlierEditLost ==
    /\ last.op = "edit_session"
    /\ last.ok
    /\ last.ui = "u2"
    /\ last.arg.id = 1
    /\ last.arg.session.notes = ""
    /\ st["u1"].logged_in
    /\ st["u1"].sessions # <<>>
    /\ st["u1"].sessions[1].id = 1
    /\ st["u1"].sessions[1].notes = "n"
    /\ st["u1"].sessions[1].hours = 1
    /\ db_sessions[1].hours = 4
    /\ HoldsForm(db_sessions[1], last.arg.form)

-----------------------------------------------------------------------------
(* Properties of the accounts (checked under SpecAccounts). *)

\* the sessions stored for an account, by id
OwnedBy(sessions, email) ==
    [i \in {j \in DOMAIN sessions : sessions[j].user_email = email} |-> sessions[i]]

\* the preferences document of an account, if there is one
PrefsDoc(preferences, email) ==
    IF email \in DOMAIN preferences THEN <<preferences[email]>> ELSE <<>>

\* C14: whatever is done in a browser tab logged in as one account leaves the
\* sessions and the preferences stored for every other account as they were;
\* Clear All removes exactly the sessions owned by the account; the sessions
\* and preferences a logged-in tab lists are the account's own.
AccountsAreIsolated ==
    /\ [](\A u \in UIs : st[u].logged_in =>
            /\ \A k \in 1..Len(st[u].sessions) :
                  st[u].sessions[k].user_email = st[u].user_email
            /\ st[u].preferences = load_preferences(db_preferences, st[u].user_email))
    /\ [][\A u \in UIs, e \in Emails :
            (st[u].logged_in /\ last'.ui = u /\ e # st[u].user_email) =>
                /\ OwnedBy(db_sessions', e) = OwnedBy(db_sessions, e)
                /\ PrefsDoc(db_preferences', e) = PrefsDoc(db_preferences, e)]_vars
    /\ [][last'.op = "clear_all" =>
            /\ DOMAIN db_sessions' =
                  {i \in DOMAIN db_sessions :
                      db_sessions[i].user_email # st[last'.ui].user_email}
            /\ \A i \in DOMAIN db_sessions' : db_sessions'[i] = db_sessions[i]]_vars

\* a@x cleared all its data while b@x has a session and preferences of its
\* own, which are still stored
ClearedNextToOtherAccount ==
    /\ last.op = "clear_all"
    /\ st["u1"].user_email = "a@x"
    /\ OwnedBy(db_sessions, "a@x") = <<>>
    /\ OwnedBy(db_sessions, "b@x") # <<>>
    /\ "b@x" \in DOMAIN db_preferences
    /\ db_preferences["b@x"].academies = <<"A1">>
    /\ "a@x" \in DOMAIN db_preferences
    /\ db_preferences["a@x"].academies = <<>>

-----------------------------------------------------------------------------
(* Properties of the display tabs (checked under SpecViews). *)

\* C16: over the sessions of the analytics window, the monthly rollup and the
\* academy rollup add up to the same hours, the same amount and the same
\* number of sessions, which are those of the window itself.
RollupTotalsAgree ==
    last.op = "analytics" =>
        LET monthly_stats == last.arg.monthly_stats
            academy_stats == last.arg.academy_stats
            data == last.arg.recent_data
        IN  /\ sum(monthly_stats, "hours") = sum(academy_stats, "hours")
            /\ sum(monthly_stats, "amount") = sum(academy_stats, "amount")
            /\ sum(monthly_stats, "sessions") = sum(academy_stats, "sessions")
            /\ sum(academy_stats, "hours") = sum(data, "hours")
            /\ sum(academy_stats, "amount") = sum(data, "amount")
            /\ sum(academy_stats, "sessions") = Len(data)

\* an analytics window of three sessions, grouped into two months and into
\* two academies
WindowOfTwoMonthsTwoAcademies ==
    /\ last.op = "analytics"
    /\ Len(last.arg.recent_data) = 3
    /\ Len(last.arg.monthly_stats) = 2
    /\ Len(last.arg.academy_stats) = 2
    /\ last.arg.academy_stats[1].amount # last.arg.academy_stats[2].amount

\* no cached session of the browser tab lies in the month of `now`
NoneThisMonth(u, now) ==
    \A k \in 1..Len(st[u].sessions) :
        <<st[u].sessions[k].date[1], st[u].sessions[k].date[2]>> # Period(now.date)

\* no cached session of the browser tab passes the three filters
NoneFiltered(u, arg) ==
    \A k \in 1..Len(st[u].sessions) :
        LET s == st[u].sessions[k]
        IN  \/ arg.academy # "All" /\ s.academy # arg.academy
            \/ arg.month # AllMonths /\ <<s.date[1], s.date[2]>> # arg.month
            \/ arg.group # "All" /\ s.group # arg.group

ZeroMetrics ==
    [total_hours |-> 0, total_amount |-> 0, num_sessions |-> 0, num_academies |-> 0]

\* C17 as stated: the dashboard over no session of the current month, be it
\* for an account without sessions, shows zero hours, zero amount, zero
\* sessions and zero academies.
EmptyInputShowsZeroTotals ==
    (last.op = "dashboard" /\ NoneThisMonth(last.ui, last.arg.now)) =>
        (last.ok /\ last.arg.metrics = <<ZeroMetrics>>)

\* C17, amended: for an account without sessions no aggregate is computed or
\* shown, an info message is; when an account has sessions and none lies in
\* the current month, in the analytics window or within the filters of All
\* Sessions, the totals shown are zero and the rollups have no row; no case
\* ends in an error.
EmptyInputShowsZerosOrNoAggregate ==
    /\ (last.op = "dashboard" /\ st[last.ui].sessions = <<>>) =>
          /\ last.ok
          /\ last.msg = "Start by logging your first session"
          /\ last.arg.metrics = <<>>
    /\ (last.op = "dashboard" /\ st[last.ui].sessions # <<>>
            /\ NoneThisMonth(last.ui, last.arg.now)) =>
          /\ last.ok
          /\ last.arg.metrics = <<ZeroMetrics>>
          /\ last.arg.academy_revenue = <<>>
          /\ last.arg.academy_summary = <<>>
    /\ (last.op = "analytics" /\ last.arg.recent_data = <<>>) =>
          /\ last.ok
          /\ last.arg.monthly_stats = <<>>
          /\ last.arg.academy_stats = <<>>
    /\ (last.op = "all_sessions" /\ NoneFiltered(last.ui, last.arg)) =>
          /\ last.ok
          /\ last.arg.sessions = 0
          /\ last.arg.total_hours = 0
          /\ last.arg.total_amount = 0

\* the dashboard of an account with three sessions, none of them in the
\* current month, shows four zeros
ZerosForMonthWithoutSessions ==
    /\ last.op = "dashboard"
    /\ Len(st["u1"].sessions) = 3
    /\ last.arg.now.date = 739556
    /\ last.arg.metrics = <<ZeroMetrics>>

NonIncreasingAmounts(rows) ==
    \A i, j \in 1..Len(rows) : i < j => rows[i].amount >= rows[j].amount

NonDecreasingAmounts(rows) ==
    \A i, j \in 1..Len(rows) : i < j => rows[i].amount <= rows[j].amount

IncreasingMonths(rows) ==
    \A i, j \in 1..Len(rows) : i < j =>
        \/ rows[i].key[1] < rows[j].key[1]
        \/ rows[i].key[1] = rows[j].key[1] /\ rows[i].key[2] < rows[j].key[2]

\* C18 as stated: in every academy rollup shown no academy precedes one with
\* a larger summed amount, and the monthly rollup is in ascending order of
\* year-month.
RollupsOrderedAsStated ==
    /\ last.op = "dashboard" =>
          /\ NonIncreasingAmounts(last.arg.academy_revenue)
          /\ NonIncreasingAmounts(last.arg.academy_summary)
    /\ last.op = "analytics" =>
          /\ NonIncreasingAmounts(last.arg.academy_stats)
          /\ IncreasingMonths(last.arg.monthly_stats)

\* C18, amended: the academy breakdown of the dashboard and the academy
\* comparison of the analytics are in descending order of summed amount; the
\* revenue-by-academy series of the dashboard chart is in ascending order of
\* summed amount; the monthly rollup is in ascending order of year-month.
RollupsOrderedAsComputed ==
    /\ last.op = "dashboard" =>
          /\ NonDecreasingAmounts(last.arg.academy_revenue)
          /\ NonIncreasingAmounts(last.arg.academy_summary)
    /\ last.op = "analytics" =>
          /\ NonIncreasingAmounts(last.arg.academy_stats)
          /\ IncreasingMonths(last.arg.monthly_stats)

\* a dashboard of two academies where the one that sorts first by name earned
\* less: the breakdown lists it last, the revenue series first
TwoAcademiesOfDifferentRevenue ==
    /\ last.op = "dashboard"
    /\ Len(last.arg.academy_summary) = 2
    /\ last.arg.academy_summary[1].key = "A2"
    /\ last.arg.academy_summary[1].amount > last.arg.academy_summary[2].amount
    /\ last.arg.academy_revenue[1].key = "A1"

-----------------------------------------------------------------------------
(* Property of the import report (checked under SpecErrors). *)

\* C19: after a text import every per-line error of the import can be
\* retrieved: what the application shows or keeps of the errors is the whole
\* list, one entry for each line that failed.
AllImportErrorsRetrievable ==
    last.op = "import_text" =>
        /\ last.arg.shown = last.errors
        /\ Len(last.arg.shown) + last.count = Len(last.arg.lines)

-----------------------------------------------------------------------------
(* Property of interleaved sign-ups (checked under SpecAuth). *)

\* a sign-up of tab u that passed the existence check (line 168) and now runs
\* create_user (line 172) although another tab created the account in between
SecondSignupWrite(u) ==
    /\ pc[u].at = "create"
    /\ pc'[u].at = "idle"
    /\ pc[u].email \in DOMAIN db_users

\* C21: when two sign-ups for the same not-yet-existing account run in
\* different tabs and interleave between the existence check and the write,
\* at most one of them reports success and the password hash stored by the
\* first write is not replaced by the second.
InterleavedSignupKeepsFirstAccount ==
    [][\A u \in UIs :
          SecondSignupWrite(u) =>
              /\ ~(last'.op = "signup" /\ last'.ok)
              /\ db_users'[pc[u].email].password = db_users[pc[u].email].password]_vars

=============================================================================
